---- MODULE Spec2Model ----
(***************************************************************************)
(* Model of ffmpeg/nodes.py: the typed node/stream graph (Stream, Node and  *)
(* its variants, Node._add_streams) and the filter descriptor rendering     *)
(* (FilterableNode._get_filter).                                            *)
(*                                                                          *)
(* Python values are represented as follows.  None is the string "None".    *)
(* A dict / OrderedDict is a sequence of <<key, value>> pairs with unique   *)
(* keys, in insertion order.  The integer keys produced by enumerate() are  *)
(* written "0", "1", ...; caller-chosen names are letters.  A text is a      *)
(* sequence of one-character strings.  A node is referred to by its index   *)
(* in the sequence of constructed nodes (its object identity).              *)
(***************************************************************************)
EXTENDS Integers, Sequences, FiniteSets, TLC

VARIABLES nodes, call, ret, frame

vars == <<nodes, call, ret, frame>>

\* ---------------------------------------------------------------- bounds
MaxNodes == 2
MaxEdges == 2
MaxSpecLen == 2

\* ------------------------------------------------------------- constants
None == "None"
NoBound == -1

InputNode == "InputNode"
SourceNode == "SourceNode"
FilterNode == "FilterNode"
OutputNode == "OutputNode"
MergeOutputsNode == "MergeOutputsNode"
GlobalNode == "GlobalNode"
NodeKinds == {InputNode, SourceNode, FilterNode, OutputNode, MergeOutputsNode, GlobalNode}

FilterableStream == "FilterableStream"
OutputStream == "OutputStream"
StreamClasses == {FilterableStream, OutputStream}

Ok == "ok"
ArityError == "ArityError"
TypeMismatch == "TypeMismatch"
InvalidUsage == "InvalidUsage"

Labels == {None, "v"}
Selectors == {None, "a"}
DictKeys == {"a"}
FilterMaxInputs == {1, 2}

\* ------------------------------------------------- dict / OrderedDict ops
DictValues(d) == [i \in 1..Len(d) |-> d[i][2]]
DictHas(d, k) == \E i \in 1..Len(d) : d[i][1] = k
DictPop(d, k) == SelectSeq(d, LAMBDA e : e[1] # k)
DictPut(d, k, v) ==
    IF DictHas(d, k)
    THEN [i \in 1..Len(d) |-> IF d[i][1] = k THEN <<k, v>> ELSE d[i]]
    ELSE Append(d, <<k, v>>)
RECURSIVE DictUpdate(_, _)
DictUpdate(d, e) ==
    IF e = <<>> THEN d
    ELSE DictUpdate(DictPut(d, Head(e)[1], Head(e)[2]), Tail(e))
Enumerate(s) == [i \in 1..Len(s) |-> <<ToString(i - 1), s[i]>>]

\* ---------------------------------------------------------------- Stream
NoStream == [cls |-> None, node |-> 0, label |-> None, selector |-> None]

_is_of_types(obj_type, types) == obj_type \in types

StreamNodeTypes(cls) ==
    IF cls = FilterableStream THEN {InputNode, FilterNode, SourceNode}
    ELSE {OutputNode, GlobalNode, MergeOutputsNode}

\* Stream.__init__ reached through FilterableStream / OutputStream
StreamInit(ns, cls, upstream_node, upstream_label, upstream_selector) ==
    IF ~ _is_of_types(ns[upstream_node].kind, StreamNodeTypes(cls))
    THEN [status |-> TypeMismatch, value |-> NoStream]
    ELSE [status |-> Ok,
          value |-> [cls |-> cls, node |-> upstream_node,
                     label |-> upstream_label, selector |-> upstream_selector]]

\* Node.stream
NodeStream(ns, self, label, select) ==
    StreamInit(ns, ns[self].outgoing_stream_type, self, label, select)

\* slice(start, stop) is [slice |-> TRUE, ...]; a plain index is [slice |-> FALSE, ...]
Slice(start, stop) == [slice |-> TRUE, start |-> start, stop |-> stop]
Index(i) == [slice |-> FALSE, start |-> i, stop |-> None]
NoItem == Index(None)

\* Stream.__getitem__
StreamGetItem(ns, s, item) ==
    IF ~ item.slice \/ item.start # None
    THEN [status |-> InvalidUsage, value |-> NoStream]
    ELSE NodeStream(ns, s.node, None, item.stop)

\* ------------------------------------------------------------ stream maps
NoSpec == [shape |-> "none", keys |-> <<>>, items |-> <<>>]
OneStream(s) == [shape |-> "stream", keys |-> <<>>, items |-> <<s>>]
StreamList(ss) == [shape |-> "list", keys |-> <<>>, items |-> ss]
StreamDict(ks, ss) == [shape |-> "dict", keys |-> ks, items |-> ss]

get_stream_map(stream_spec) ==
    CASE stream_spec.shape = "none" -> <<>>
      [] stream_spec.shape = "stream" -> << <<None, stream_spec.items[1]>> >>
      [] stream_spec.shape = "list" -> Enumerate(stream_spec.items)
      [] stream_spec.shape = "dict" ->
            [i \in 1..Len(stream_spec.items) |-> <<stream_spec.keys[i], stream_spec.items[i]>>]

\* ------------------------------------------------------------------ Node
\* __check_input_len without its upper-bound branch
check_input_len_min_only(stream_map, min_inputs, max_inputs) ==
    ~ (min_inputs # NoBound /\ Len(stream_map) < min_inputs)

\* Node.__check_input_len: TRUE when no ValueError is raised
check_input_len(stream_map, min_inputs, max_inputs) ==
    IF min_inputs # NoBound /\ Len(stream_map) < min_inputs THEN FALSE
    ELSE IF max_inputs # NoBound /\ Len(stream_map) > max_inputs THEN FALSE
    ELSE TRUE

\* __check_input_types that lets every stream through
check_input_types_skip(stream_map, incoming_stream_types) == TRUE

\* Node.__check_input_types: TRUE when no TypeError is raised
check_input_types(stream_map, incoming_stream_types) ==
    \A i \in 1..Len(stream_map) :
        _is_of_types(stream_map[i][2].cls, incoming_stream_types)

\* Node.__get_incoming_edge_map
get_incoming_edge_map(stream_map) ==
    [i \in 1..Len(stream_map) |->
        <<stream_map[i][1],
          <<stream_map[i][2].node, stream_map[i][2].label, stream_map[i][2].selector>> >>]

NoNode == [kind |-> None, name |-> <<>>, args |-> <<>>, kwargs |-> <<>>,
           incoming_stream_types |-> {}, outgoing_stream_type |-> None,
           min_inputs |-> 0, max_inputs |-> 0, incoming_edge_map |-> <<>>]

\* Node.__init__
NodeInit(kind, stream_spec, name, incoming_stream_types, outgoing_stream_type, min_inputs, max_inputs, args, kwargs) ==
    LET stream_map == get_stream_map(stream_spec) IN
    IF ~ check_input_len(stream_map, min_inputs, max_inputs)
    THEN [status |-> ArityError, node |-> NoNode]
    ELSE IF ~ check_input_types(stream_map, incoming_stream_types)
    THEN [status |-> TypeMismatch, node |-> NoNode]
    ELSE [status |-> Ok,
          node |-> [kind |-> kind, name |-> name, args |-> args, kwargs |-> kwargs,
                    incoming_stream_types |-> incoming_stream_types,
                    outgoing_stream_type |-> outgoing_stream_type,
                    min_inputs |-> min_inputs, max_inputs |-> max_inputs,
                    incoming_edge_map |-> get_incoming_edge_map(stream_map)]]

InputNodeInit(name, args, kwargs) ==
    NodeInit(InputNode, NoSpec, name, {}, FilterableStream, 0, 0, args, kwargs)
SourceNodeInit(name, args, kwargs) ==
    NodeInit(SourceNode, NoSpec, name, {}, FilterableStream, 0, 0, args, kwargs)
FilterNodeInit(stream_spec, name, max_inputs, args, kwargs) ==
    NodeInit(FilterNode, stream_spec, name, {FilterableStream}, FilterableStream,
             1, max_inputs, args, kwargs)
OutputNodeInit(stream, name, args, kwargs) ==
    NodeInit(OutputNode, stream, name, {FilterableStream}, OutputStream,
             0, NoBound, args, kwargs)
MergeOutputsNodeInit(streams, name) ==
    NodeInit(MergeOutputsNode, streams, name, {OutputStream}, OutputStream,
             1, NoBound, <<>>, <<>>)
GlobalNodeInit(stream, name, args, kwargs) ==
    NodeInit(GlobalNode, stream, name, {OutputStream}, OutputStream, 1, 1, args, kwargs)

\* _add_streams that overwrites the stored map before checking the new length
_add_streams_late_check(self, stream_spec) ==
    LET prev_edges == DictValues(self.incoming_edge_map)
        new_stream_map == get_stream_map(stream_spec)
        new_edges == DictValues(get_incoming_edge_map(new_stream_map))
        new_edge_map == Enumerate(prev_edges \o new_edges)
        updated == DictUpdate(DictPop(self.incoming_edge_map, None), new_edge_map)
    IN
    IF ~ check_input_types(new_stream_map, self.incoming_stream_types)
    THEN [status |-> TypeMismatch, incoming_edge_map |-> self.incoming_edge_map]
    ELSE IF ~ check_input_len(new_edge_map, self.min_inputs, self.max_inputs)
    THEN [status |-> ArityError, incoming_edge_map |-> updated]
    ELSE [status |-> Ok, incoming_edge_map |-> updated]

\* Node._add_streams
_add_streams(self, stream_spec) ==
    LET prev_edges == DictValues(self.incoming_edge_map)
        new_stream_map == get_stream_map(stream_spec)
        new_inc_edge_map == get_incoming_edge_map(new_stream_map)
        new_edges == DictValues(new_inc_edge_map)
        new_edge_map == Enumerate(prev_edges \o new_edges)
        popped == IF DictHas(self.incoming_edge_map, None)
                  THEN DictPop(self.incoming_edge_map, None)
                  ELSE self.incoming_edge_map
    IN
    IF ~ check_input_types(new_stream_map, self.incoming_stream_types)
    THEN [status |-> TypeMismatch, incoming_edge_map |-> self.incoming_edge_map]
    ELSE IF ~ check_input_len(new_edge_map, self.min_inputs, self.max_inputs)
    THEN [status |-> ArityError, incoming_edge_map |-> self.incoming_edge_map]
    ELSE [status |-> Ok, incoming_edge_map |-> DictUpdate(popped, new_edge_map)]

\* ------------------------------------------------------------------ text
\* the characters in use, in ascending code point order
CharOrder == <<"'", ",", "0", "1", "2", "3", "4", "5", "6", "7", "8", "9", ":", ";", "=",
               "[", "\\", "]", "a", "c", "i", "l", "o", "p", "r", "s", "t", "w">>
Ord(c) == CHOOSE i \in 1..Len(CharOrder) : CharOrder[i] = c

\* Python's < on str
RECURSIVE TextLess(_, _)
TextLess(a, b) ==
    IF b = <<>> THEN FALSE
    ELSE IF a = <<>> THEN TRUE
    ELSE IF Head(a) # Head(b) THEN Ord(Head(a)) < Ord(Head(b))
    ELSE TextLess(Tail(a), Tail(b))

\* str(n) of a non-negative int
RECURSIVE StrOfInt(_)
StrOfInt(n) ==
    LET digit(d) == <<"0", "1", "2", "3", "4", "5", "6", "7", "8", "9">>[d + 1] IN
    IF n < 10 THEN <<digit(n)>> ELSE StrOfInt(n \div 10) \o <<digit(n % 10)>>

\* _utils.escape_chars
RECURSIVE escape_chars(_, _)
escape_chars(text, chars) ==
    IF text = <<>> THEN <<>>
    ELSE (IF Head(text) \in chars THEN <<"\\", Head(text)>> ELSE <<Head(text)>>)
         \o escape_chars(Tail(text), chars)

\* sep.join(texts)
RECURSIVE Join(_, _)
Join(texts, sep) ==
    IF texts = <<>> THEN <<>>
    ELSE IF Len(texts) = 1 THEN texts[1]
    ELSE texts[1] \o sep \o Join(Tail(texts), sep)

\* sorted(d) of a dict with str keys: its keys in ascending order
RECURSIVE SortTexts(_)
SortTexts(S) ==
    IF S = {} THEN <<>>
    ELSE LET m == CHOOSE x \in S : \A y \in S \ {x} : TextLess(x, y)
         IN <<m>> \o SortTexts(S \ {m})
\* the keys of a dict in insertion order, unsorted
sorted_insertion_order(d) == [i \in 1..Len(d) |-> d[i][1]]

sorted(d) == SortTexts({d[i][1] : i \in 1..Len(d)})

DictGet(d, k) == d[CHOOSE i \in 1..Len(d) : d[i][1] = k][2]

\* -------------------------------------------------------- FilterableNode
FilterChars == {"\\", "'", "=", ":"}
GraphChars == {"\\", "'", "[", "]", ",", ";"}
SplitNames == {<<"s", "p", "l", "i", "t">>, <<"a", "s", "p", "l", "i", "t">>}

\* the fan-out override applied to split only, asplit left out
filter_args_split_only(self, outgoing_edges) ==
    IF self.name = <<"s", "p", "l", "i", "t">>
    THEN << StrOfInt(Len(outgoing_edges)) >> ELSE self.args

\* _get_filter, lines 195-198: the positional parameters to render; the int
\* len(outgoing_edges) is written as the text str() makes of it in escape_chars
filter_args(self, outgoing_edges) ==
    IF self.name \in SplitNames THEN << StrOfInt(Len(outgoing_edges)) >> ELSE self.args

\* _get_filter, lines 201-205
RECURSIVE filter_out_kwargs(_, _)
filter_out_kwargs(items, out_kwargs) ==
    IF items = <<>> THEN out_kwargs
    ELSE filter_out_kwargs(Tail(items),
            DictPut(out_kwargs, escape_chars(Head(items)[1], FilterChars),
                                escape_chars(Head(items)[2], FilterChars)))

\* _get_filter, lines 200 and 207
filter_arg_params(args) ==
    LET out_args == [i \in 1..Len(args) |-> escape_chars(args[i], FilterChars)] IN
    [i \in 1..Len(out_args) |-> escape_chars(out_args[i], FilterChars)]

\* _get_filter, line 208
filter_kwarg_params(out_kwargs) ==
    LET keys == sorted(out_kwargs) IN
    [i \in 1..Len(keys) |-> keys[i] \o <<"=">> \o DictGet(out_kwargs, keys[i])]

\* FilterableNode._get_filter
_get_filter(self, outgoing_edges) ==
    LET args == filter_args(self, outgoing_edges)
        out_kwargs == filter_out_kwargs(self.kwargs, <<>>)
        arg_params == filter_arg_params(args)
        kwarg_params == filter_kwarg_params(out_kwargs)
        params == arg_params \o kwarg_params
        name_text == escape_chars(self.name, FilterChars)
        params_text == IF params # <<>>
                       THEN name_text \o <<"=">> \o Join(params, <<":">>)
                       ELSE name_text
    IN [arg_params |-> arg_params, kwarg_params |-> kwarg_params,
        text |-> escape_chars(params_text, GraphChars)]

\* ------------------------------------------------------- inputs of calls
SeqsUpTo(S, n) == UNION {[1..k -> S] : k \in 0..n}
Injective(f) == \A i, j \in DOMAIN f : f[i] = f[j] => i = j
Range(f) == {f[i] : i \in DOMAIN f}

\* the (label, selector) pairs of the streams handed to constructors and _add_streams
SpecPads == {<<None, None>>}

\* every Stream object that can exist over the constructed nodes
Streams(ns) ==
    {s \in [cls : StreamClasses, node : 1..Len(ns), label : Labels, selector : Selectors] :
        StreamInit(ns, s.cls, s.node, s.label, s.selector).status = Ok}

\* the streams handed to constructors and _add_streams
SpecStreams(ns) == {s \in Streams(ns) : <<s.label, s.selector>> \in SpecPads}

StreamSpecs(ns) ==
    {NoSpec}
    \cup {OneStream(s) : s \in SpecStreams(ns)}
    \cup {StreamList(ss) : ss \in SeqsUpTo(SpecStreams(ns), MaxSpecLen)}
    \cup UNION {{StreamDict(ks, ss) : ks \in {f \in [1..k -> DictKeys] : Injective(f)},
                                      ss \in [1..k -> SpecStreams(ns)]} : k \in 1..MaxSpecLen}

Items == {Slice(start, stop) : start \in Labels, stop \in Selectors}
         \cup {Index(i) : i \in Selectors}

\* the kinds of the nodes the streams of a stream spec come from
SourceKinds(ns, stream_spec) == {ns[s.node].kind : s \in Range(stream_spec.items)}

\* call: the operation last called and its arguments (for a constructor the number
\* k of streams given, src_kinds the kinds of the nodes the streams come from);
\* ret: what it returned or raised
NoCall == [op |-> None, self |-> 0, kind |-> None, max_inputs |-> 0,
           k |-> 0, src_kinds |-> {}, stream |-> NoStream, item |-> NoItem]
NoFrame == [arg_params |-> <<>>, kwarg_params |-> <<>>]
NoText == <<>>
Return(status, value) == [status |-> status, value |-> value, text |-> NoText]
ReturnText(text) == [status |-> Ok, value |-> NoStream, text |-> text]

DefaultName == <<"f">>

\* the number of incoming edges stored in the whole graph
RECURSIVE TotalEdges(_)
TotalEdges(ns) ==
    IF ns = <<>> THEN 0
    ELSE Len(Head(ns).incoming_edge_map) + TotalEdges(Tail(ns))

\* the variant constructors, selected by kind
Construct(kind, stream_spec, name, max_inputs, args, kwargs) ==
    CASE kind = InputNode -> InputNodeInit(name, args, kwargs)
      [] kind = SourceNode -> SourceNodeInit(name, args, kwargs)
      [] kind = FilterNode -> FilterNodeInit(stream_spec, name, max_inputs, args, kwargs)
      [] kind = OutputNode -> OutputNodeInit(stream_spec, name, args, kwargs)
      [] kind = MergeOutputsNode -> MergeOutputsNodeInit(stream_spec, name)
      [] kind = GlobalNode -> GlobalNodeInit(stream_spec, name, args, kwargs)

\* --------------------------------------------------------------- actions
Init ==
    /\ nodes = <<>>
    /\ call = NoCall
    /\ ret = Return(Ok, NoStream)
    /\ frame = NoFrame

\* kind(stream_spec, ...): a node constructor call
NewNode(kind, stream_spec, max_inputs) ==
    LET r == Construct(kind, stream_spec, DefaultName, max_inputs, <<>>, <<>>) IN
    /\ Len(nodes) < MaxNodes
    /\ kind \in {InputNode, SourceNode} => stream_spec = NoSpec
    /\ kind # FilterNode => max_inputs = 1
    /\ nodes' = IF r.status = Ok THEN Append(nodes, r.node) ELSE nodes
    /\ TotalEdges(nodes') <= MaxEdges
    /\ call' = [NoCall EXCEPT !.op = "new_node", !.kind = kind,
                              !.max_inputs = max_inputs,
                              !.k = Len(stream_spec.items),
                              !.src_kinds = SourceKinds(nodes, stream_spec)]
    /\ ret' = Return(r.status, NoStream)
    /\ UNCHANGED frame

\* node._add_streams(stream_spec)
AddStreams(self, stream_spec) ==
    LET r == _add_streams(nodes[self], stream_spec) IN
    /\ nodes' = [nodes EXCEPT ![self].incoming_edge_map = r.incoming_edge_map]
    /\ TotalEdges(nodes') <= MaxEdges
    /\ call' = [NoCall EXCEPT !.op = "add_streams", !.self = self,
                              !.kind = nodes[self].kind,
                              !.max_inputs = nodes[self].max_inputs,
                              !.src_kinds = SourceKinds(nodes, stream_spec)]
    /\ ret' = Return(r.status, NoStream)
    /\ UNCHANGED frame

\* cls(upstream_node, upstream_label, upstream_selector): a direct Stream construction
NewStream(cls, upstream_node, label, selector) ==
    LET r == StreamInit(nodes, cls, upstream_node, label, selector) IN
    /\ call' = [NoCall EXCEPT !.op = "new_stream", !.self = upstream_node, !.kind = cls,
                              !.item = Slice(label, selector)]
    /\ ret' = Return(r.status, r.value)
    /\ UNCHANGED <<nodes, frame>>

\* node.stream(label, select)
Stream(self, label, select) ==
    LET r == NodeStream(nodes, self, label, select) IN
    /\ call' = [NoCall EXCEPT !.op = "stream", !.self = self,
                              !.item = Slice(label, select)]
    /\ ret' = Return(r.status, r.value)
    /\ UNCHANGED <<nodes, frame>>

\* stream[item]
GetItem(s, item) ==
    LET r == StreamGetItem(nodes, s, item) IN
    /\ call' = [NoCall EXCEPT !.op = "getitem", !.stream = s, !.item = item]
    /\ ret' = Return(r.status, r.value)
    /\ UNCHANGED <<nodes, frame>>

\* graph construction: constructors and _add_streams
Next ==
    \/ \E kind \in NodeKinds, sp \in StreamSpecs(nodes), m \in FilterMaxInputs :
            NewNode(kind, sp, m)
    \/ \E self \in 1..Len(nodes), sp \in StreamSpecs(nodes) : AddStreams(self, sp)

Spec == Init /\ [][Next]_vars

\* streams: nodes built from at most one stream each, and the Stream operations
NextStreams ==
    \/ \E kind \in NodeKinds, sp \in {NoSpec} \cup {OneStream(s) : s \in SpecStreams(nodes)} :
            NewNode(kind, sp, 1)
    \/ \E cls \in StreamClasses, n \in 1..Len(nodes), l \in Labels, sel \in Selectors :
            NewStream(cls, n, l, sel)
    \/ \E n \in 1..Len(nodes), l \in Labels, sel \in Selectors : Stream(n, l, sel)
    \/ \E s \in Streams(nodes), item \in Items : GetItem(s, item)

StreamSpec == Init /\ [][NextStreams]_vars

\* ------------------------------------------------------ rendering inputs
MaxArgs == 2
MaxKwargs == 2
MaxFanOut == 3

Names == SplitNames \cup {<<"c", "r", "o", "p">>}
ArgTexts == {<<"3">>, <<"a", ":">>, <<"[">>}
KeyTexts == {<<"w">>, <<"'">>, <<"2">>}
ValueTexts == {<<"1">>, <<"a", "=", "\\">>}

ArgLists == SeqsUpTo(ArgTexts, MaxArgs)
KwargDicts ==
    UNION {{[i \in 1..k |-> <<ks[i], vs[i]>>] :
                ks \in {f \in [1..k -> KeyTexts] : Injective(f)}, vs \in [1..k -> ValueTexts]} :
           k \in 0..MaxKwargs}
OutgoingEdges == {[i \in 1..n |-> <<i, None>>] : n \in 0..MaxFanOut}

\* one filterable node, built by SourceNode(name, args, kwargs)
RenderInit ==
    /\ \E name \in Names, args \in ArgLists, kwargs \in KwargDicts :
            nodes = << SourceNodeInit(name, args, kwargs).node >>
    /\ call = NoCall
    /\ ret = Return(Ok, NoStream)
    /\ frame = NoFrame

\* node._get_filter(outgoing_edges)
GetFilter(self, outgoing_edges) ==
    LET r == _get_filter(nodes[self], outgoing_edges) IN
    /\ nodes[self].kind \in {FilterNode, SourceNode}
    /\ call' = [NoCall EXCEPT !.op = "get_filter", !.self = self,
                              !.kind = nodes[self].kind, !.k = Len(outgoing_edges)]
    /\ ret' = ReturnText(r.text)
    /\ frame' = [arg_params |-> r.arg_params, kwarg_params |-> r.kwarg_params]
    /\ UNCHANGED nodes

NextRender == \E self \in 1..Len(nodes), oe \in OutgoingEdges : GetFilter(self, oe)

RenderSpec == RenderInit /\ [][NextRender]_vars

\* ================================================================ claims
\* the variant table of the specification: arity bounds and allowed source kinds
VariantMin(kind) == IF kind \in {FilterNode, MergeOutputsNode, GlobalNode} THEN 1 ELSE 0
VariantMax(kind, max_inputs) ==
    CASE kind \in {InputNode, SourceNode} -> 0
      [] kind = GlobalNode -> 1
      [] kind = FilterNode -> max_inputs
      [] OTHER -> NoBound
AllowedSourceKinds(kind) ==
    CASE kind \in {FilterNode, OutputNode} -> {InputNode, FilterNode, SourceNode}
      [] kind \in {MergeOutputsNode, GlobalNode} -> {OutputNode, GlobalNode, MergeOutputsNode}
      [] OTHER -> {}
ArityViolated(kind, max_inputs, k) ==
    \/ k < VariantMin(kind)
    \/ VariantMax(kind, max_inputs) # NoBound /\ k > VariantMax(kind, max_inputs)
EdgeCount(n) == Len(n.incoming_edge_map)
Failed == {TypeMismatch, ArityError}

\* C1: a failed _add_streams (TypeMismatch or ArityError) leaves the node's stored
\* incoming edge map, and every other node, exactly as before the call.
C1_FailedAttachKeepsEdgeMap ==
    [][(call'.op = "add_streams" /\ ret'.status \in Failed) => nodes' = nodes]_vars

\* C1 witness: an attach of a wrong-kind stream to a node holding one edge was refused
C1_Witness ==
    /\ call.op = "add_streams" /\ ret.status = TypeMismatch
    /\ call.src_kinds # {}
    /\ EdgeCount(nodes[call.self]) = 1

\* C2: the nodes and their incoming edges form a directed acyclic graph.
Sources(n) == {nodes[n].incoming_edge_map[i][2][1] : i \in 1..Len(nodes[n].incoming_edge_map)}
RECURSIVE Upstream(_, _)
Upstream(S, depth) ==
    IF depth = 0 THEN S
    ELSE LET T == S \cup UNION {Sources(n) : n \in S} IN
         IF T = S THEN S ELSE Upstream(T, depth - 1)
C2_Acyclic ==
    \A n \in 1..Len(nodes) : n \notin Upstream(Sources(n), Len(nodes))

\* C3: the number of stored incoming edges of every node lies within the bounds of
\* the node's variant, whatever labels the edge map was built with.
C3_EdgeCountWithinBounds ==
    \A n \in 1..Len(nodes) :
        ~ ArityViolated(nodes[n].kind, nodes[n].max_inputs, EdgeCount(nodes[n]))

\* C4: a constructor given k streams raises ArityError and creates no node when k is
\* outside the variant's bounds; with k inside the bounds and every stream from an
\* allowed kind of node it creates the node, holding k incoming edges.
C4_ConstructionArity ==
    [][call'.op = "new_node" =>
        IF ArityViolated(call'.kind, call'.max_inputs, call'.k)
        THEN ret'.status = ArityError /\ nodes' = nodes
        ELSE call'.src_kinds \subseteq AllowedSourceKinds(call'.kind) =>
                /\ ret'.status = Ok
                /\ Len(nodes') = Len(nodes) + 1
                /\ SubSeq(nodes', 1, Len(nodes)) = nodes
                /\ nodes'[Len(nodes')].kind = call'.kind
                /\ EdgeCount(nodes'[Len(nodes')]) = call'.k]_vars

\* C4 witness: FilterNode with max_inputs = 1 was given two streams and refused
C4_Witness ==
    /\ call.op = "new_node" /\ call.kind = FilterNode /\ call.max_inputs = 1
    /\ call.k = 2 /\ ret.status = ArityError

\* C5 (as stated): every stored edge comes from a node of a kind allowed for the
\* node holding it, and presenting a stream from any other kind of node fails with
\* TypeMismatch.
EdgesAllowed ==
    \A n \in 1..Len(nodes) :
        \A m \in Sources(n) : nodes[m].kind \in AllowedSourceKinds(nodes[n].kind)
WrongKindPresented ==
    /\ call.op \in {"new_node", "add_streams"}
    /\ ~ (call.src_kinds \subseteq AllowedSourceKinds(call.kind))
C5_Original ==
    /\ EdgesAllowed
    /\ WrongKindPresented => ret.status = TypeMismatch

\* C5 (amended): every stored edge comes from a node of an allowed kind; presenting
\* a stream from any other kind of node fails: _add_streams with TypeMismatch, a
\* constructor with ArityError when the stream count is outside the variant's bounds
\* (the count is checked first) and with TypeMismatch otherwise.
C5_Amended ==
    /\ EdgesAllowed
    /\ WrongKindPresented =>
         IF call.op = "new_node" /\ ArityViolated(call.kind, call.max_inputs, call.k)
         THEN ret.status = ArityError
         ELSE ret.status = TypeMismatch

\* C5 witness: an Output node was presented an Output node's stream and refused it
\* with TypeMismatch, in a graph that holds an edge
C5_Witness ==
    /\ WrongKindPresented /\ call.kind = OutputNode
    /\ OutputNode \in call.src_kinds /\ ret.status = TypeMismatch
    /\ \E n \in 1..Len(nodes) : EdgeCount(nodes[n]) > 0

\* C9: a successful _add_streams of m streams onto a map of n entries stores n + m
\* entries, the n prior edges in order followed by the m new edges in order, none
\* duplicated, and no unlabeled entry.
SpecEdges(stream_spec) ==
    [i \in 1..Len(stream_spec.items) |->
        <<stream_spec.items[i].node, stream_spec.items[i].label,
          stream_spec.items[i].selector>>]
C9_AttachStoresMergedMap ==
    [][\A self \in 1..Len(nodes), sp \in StreamSpecs(nodes) :
        (AddStreams(self, sp) /\ ret'.status = Ok) =>
            LET old == nodes[self].incoming_edge_map
                new == nodes'[self].incoming_edge_map
            IN /\ Len(new) = Len(old) + Len(sp.items)
               /\ DictValues(new) = DictValues(old) \o SpecEdges(sp)
               /\ ~ DictHas(new, None)]_vars

\* C6: stream[:sel] succeeds and returns a stream on the same upstream node with
\* the same upstream label as the stream it was applied to and selector sel.
BareSelector(item) == item.slice /\ item.start = None
C6_SelectKeepsNodeAndLabel ==
    (call.op = "getitem" /\ BareSelector(call.item)) =>
        /\ ret.status = Ok
        /\ ret.value.node = call.stream.node
        /\ ret.value.label = call.stream.label
        /\ ret.value.selector = call.item.stop

\* ------------------------------------------------- reading a descriptor back
\* the position of the first c in text that is not escaped by a backslash, or 0
RECURSIVE FindUnescaped(_, _, _)
FindUnescaped(text, c, i) ==
    IF i > Len(text) THEN 0
    ELSE IF text[i] = "\\" THEN FindUnescaped(text, c, i + 2)
    ELSE IF text[i] = c THEN i
    ELSE FindUnescaped(text, c, i + 1)

\* text cut at every c that is not escaped
RECURSIVE SplitUnescaped(_, _)
SplitUnescaped(text, c) ==
    LET p == FindUnescaped(text, c, 1) IN
    IF p = 0 THEN <<text>>
    ELSE <<SubSeq(text, 1, p - 1)>> \o SplitUnescaped(SubSeq(text, p + 1, Len(text)), c)

\* one level of backslash escaping removed
RECURSIVE Unescape(_)
Unescape(text) ==
    IF text = <<>> THEN <<>>
    ELSE IF Head(text) = "\\" /\ Len(text) >= 2
         THEN <<text[2]>> \o Unescape(SubSeq(text, 3, Len(text)))
         ELSE <<Head(text)>> \o Unescape(Tail(text))

\* the parameters of a descriptor, name=p1:p2:..., as they stand inside it
DescriptorParams(descriptor) ==
    LET text == Unescape(descriptor)
        p == FindUnescaped(text, "=", 1)
    IN IF p = 0 THEN <<>> ELSE SplitUnescaped(SubSeq(text, p + 1, Len(text)), ":")
IsNamed(param) == FindUnescaped(param, "=", 1) # 0
ParamKey(param) == SubSeq(param, 1, FindUnescaped(param, "=", 1) - 1)
ParamValue(param) == SubSeq(param, FindUnescaped(param, "=", 1) + 1, Len(param))
Positional(params) == SelectSeq(params, LAMBDA q : ~ IsNamed(q))
Named(params) == SelectSeq(params, LAMBDA q : IsNamed(q))
PositionalFirst(params) ==
    \A i, j \in 1..Len(params) : (IsNamed(params[i]) /\ ~ IsNamed(params[j])) => j < i

Rendered == call.op = "get_filter"
RenderedNode == nodes[call.self]
IsSplit == RenderedNode.name \in {<<"s", "p", "l", "i", "t">>, <<"a", "s", "p", "l", "i", "t">>}

\* C7: for split and asplit the rendered positional parameters are the single
\* number of outgoing edges, whatever count the node was given; for every other
\* name they are the node's own positional parameters.
C7_FanOutOverride ==
    Rendered =>
        LET pos == Positional(DescriptorParams(ret.text))
            values == [i \in 1..Len(pos) |-> Unescape(Unescape(pos[i]))]
        IN IF IsSplit THEN values = << StrOfInt(call.k) >>
                      ELSE values = RenderedNode.args

\* C7 witness: asplit built with the count 3 was rendered with 2 outgoing edges
C7_Witness ==
    /\ Rendered
    /\ RenderedNode.name = <<"a", "s", "p", "l", "i", "t">>
    /\ RenderedNode.args = << <<"3">> >>
    /\ call.k = 2

\* what C8 says apart from the order of the named parameters: positional
\* parameters first and in declaration order, every named parameter present once,
\* and the same descriptor whatever the insertion order of the named parameters
Reorderings(d) ==
    {[i \in 1..Len(d) |-> d[f[i]]] : f \in {g \in [1..Len(d) -> 1..Len(d)] : Injective(g)}}
RenderedLayout ==
    LET params == DescriptorParams(ret.text)
        pos == Positional(params)
        named == Named(params)
    IN /\ PositionalFirst(params)
       /\ Len(pos) = Len(frame.arg_params)
       /\ IsSplit \/ [i \in 1..Len(pos) |-> Unescape(Unescape(pos[i]))] = RenderedNode.args
       /\ Len(named) = Len(RenderedNode.kwargs)
       /\ {<<Unescape(ParamKey(named[i])), Unescape(ParamValue(named[i]))>> : i \in 1..Len(named)}
            = Range(RenderedNode.kwargs)
       /\ \A kw \in Reorderings(RenderedNode.kwargs) :
            _get_filter([RenderedNode EXCEPT !.kwargs = kw],
                        [i \in 1..call.k |-> <<i, None>>]).text = ret.text

\* C8 (as stated): positional parameters first, in declaration order, then the
\* named parameters in lexicographic order of the keys as the caller gave them.
C8_Original ==
    Rendered =>
        /\ RenderedLayout
        /\ LET named == Named(DescriptorParams(ret.text)) IN
           \A i, j \in 1..Len(named) :
                i < j => TextLess(Unescape(ParamKey(named[i])), Unescape(ParamKey(named[j])))

\* C8 (amended): positional parameters first, in declaration order, then the named
\* parameters in lexicographic order of their escaped keys, the keys as they stand
\* in the descriptor; this is the order of the caller's keys when no key contains
\* a backslash, single quote, equals sign or colon.
C8_Amended ==
    Rendered =>
        /\ RenderedLayout
        /\ LET named == Named(DescriptorParams(ret.text)) IN
           /\ \A i, j \in 1..Len(named) :
                i < j => TextLess(ParamKey(named[i]), ParamKey(named[j]))
           /\ (\A i \in 1..Len(named) : Unescape(ParamKey(named[i])) = ParamKey(named[i])) =>
                \A i, j \in 1..Len(named) :
                    i < j => TextLess(Unescape(ParamKey(named[i])), Unescape(ParamKey(named[j])))

\* C8 witness: a positional parameter and two named parameters, inserted in
\* descending key order, one key holding a character that is escaped
C8_Witness ==
    /\ Rendered
    /\ Len(RenderedNode.args) >= 1
    /\ Len(RenderedNode.kwargs) = 2
    /\ RenderedNode.kwargs[1][1] = <<"w">>
    /\ RenderedNode.kwargs[2][1] = <<"'">>

\* C10: before the final escape every positional parameter and every named
\* parameter value is its text with one backslash put before each backslash,
\* single quote, equals sign and colon, and nothing else.
RECURSIVE EscapedOnce(_)
EscapedOnce(text) ==
    IF text = <<>> THEN <<>>
    ELSE (IF Head(text) \in {"\\", "'", "=", ":"} THEN <<"\\">> ELSE <<>>)
         \o <<Head(text)>> \o EscapedOnce(Tail(text))
C10_UniformEscaping ==
    Rendered =>
        /\ IsSplit \/ frame.arg_params =
                [i \in 1..Len(RenderedNode.args) |-> EscapedOnce(RenderedNode.args[i])]
        /\ \A kv \in Range(RenderedNode.kwargs) :
                \E i \in 1..Len(frame.kwarg_params) :
                    ParamValue(frame.kwarg_params[i]) = EscapedOnce(kv[2])

====
